---- MODULE Spec2Model ----
(***************************************************************************)
(* Model of the FMU simulation master (src/main.c): the run-to-completion  *)
(* driver simulate() and the externally stepped driver                     *)
(* initializeSimulation() / main loop / simulationDoStep() /               *)
(* cleanupSimulation().  The two drivers run side by side against the same *)
(* model (FMU): whenever both are about to make the same model call they   *)
(* receive the same answer, so that their runs can be compared.  The two   *)
(* drivers are separate runs of the program: what a write outside an       *)
(* output row does (nothing visible, or the run is killed) is decided for  *)
(* each run on its own.                                                    *)
(*                                                                         *)
(* Time is counted in ticks, Scale ticks to one time unit; tStart = 0.     *)
(* One action is one model call together with the driver code that runs    *)
(* from the return of that call up to the next model call.                 *)
(*                                                                         *)
(* The memory counters of src/memory.c (allocateMemory, freeMemory) are    *)
(* modelled in the variable mem and run under their own specification.     *)
(***************************************************************************)
EXTENDS Integers, Sequences, FiniteSets, TLC

VARIABLES sim, tEnd, h, nx, nz, nVariables, fmu, caller, mem

vars == <<sim, tEnd, h, nx, nz, nVariables, fmu, caller, mem>>
cfgvars == <<tEnd, h, nx, nz, nVariables, fmu, caller, mem>>

(* ------------------------------ bounds --------------------------------- *)
Scale == 12        \* ticks per time unit
MaxTEnd == 3       \* longest end time (ticks) of a run against an arbitrary model
MaxNz == 2         \* most event indicators
MaxVariables == 3  \* most declared variables
MaxIter == 2       \* a discrete-update iteration converges within MaxIter calls
MaxStale == 1      \* how often the model schedules an event that is not in the future
MaxSteps == 3      \* an arbitrary model is followed for MaxSteps steps
MaxRetry == 1      \* failed steps after which a caller other than main steps again
MaxExtra == 2      \* calls of simulationDoStep a caller other than main makes on a finished session
MaxCount == 12     \* the counters of a run are exact up to MaxCount
WordBits == 8      \* width of size_t and of long int in the memory counters
MaxBlocks == 3     \* most blocks that are live at once

(* -------------------------- program constants -------------------------- *)
fmi2OK == 0
fmi2Warning == 1
fmi2Discard == 2
fmi2Error == 3
fmi2Fatal == 4
fmi2Pending == 5
fmi2Status == fmi2OK..fmi2Pending
tStart == 0
Slack == 10
MinArgc == 5

Modes == {"Whole", "Step"}

min(a, b) == IF a > b THEN b ELSE a

\* n++ on a counter of the run. The counters are kept exactly up to MaxCount,
\* which is past every column of an output row; from there on only "at least
\* MaxCount" is kept: no branch of the program reads a counter, and every
\* column from the capacity on is outside the row alike.
Bump(n) == IF n < MaxCount THEN n + 1 ELSE n

(* ------------------------ memory counters (memory.c) ------------------- *)
\* size_t is WordBits wide and unsigned, long int is WordBits wide and signed
Word == 2 ^ WordBits
ToSizeT(n) == ((n % Word) + Word) % Word
ToLong(n) == IF ToSizeT(n) >= Word \div 2 THEN ToSizeT(n) - Word ELSE ToSizeT(n)

\* sizeof(size_t), in bytes of 8 bits
SizeofSizeT == WordBits \div 8

\* the null pointer and the addresses malloc may return
NULL == 0
Pointers == 1..MaxBlocks

\* long int currentMemory; long int peakMemory; no block is live.  heap maps
\* the live blocks to the size_t kept in front of them; sizes is the size
\* argument each live block was allocated with.
MemStart ==
  [currentMemory |-> 0, peakMemory |-> 0, heap |-> << >>, sizes |-> << >>,
   op |-> "none", crashed |-> FALSE]

\* function f without the argument p
Without(f, p) == [q \in DOMAIN f \ {p} |-> f[q]]

\* allocateMemory, lines 12-26; ptr is what malloc returned.  When
\* size * nbr_of_elements + sizeof(size_t) wraps to less than sizeof(size_t)
\* the write of the size in front of the block is outside the block:
\* undefined, the run is killed or goes on.
allocateMemory(m, nbr_of_elements, size, ptr, survives) ==
  LET totalSize == ToSizeT(size * nbr_of_elements + SizeofSizeT)
      current == ToLong(ToSizeT(m.currentMemory) + size)
  IN IF ptr = NULL THEN [m EXCEPT !.op = "allocateMemory failed"]
     ELSE IF totalSize < SizeofSizeT /\ ~survives
       THEN [m EXCEPT !.op = "allocateMemory", !.crashed = TRUE]
     ELSE [m EXCEPT !.heap = (ptr :> size) @@ m.heap,
                    !.sizes = (ptr :> size) @@ m.sizes,
                    !.currentMemory = current,
                    !.peakMemory = IF current > @ THEN current ELSE @,
                    !.op = "allocateMemory"]

\* freeMemory, lines 28-34
freeMemory(m, ptr) ==
  IF ptr = NULL THEN [m EXCEPT !.op = "freeMemory(NULL)"]
  ELSE [m EXCEPT !.heap = Without(m.heap, ptr),
                 !.sizes = Without(m.sizes, ptr),
                 !.currentMemory = ToLong(ToSizeT(@) - m.heap[ptr]),
                 !.op = "freeMemory"]

(* ----------------------------- the model (FMU) ------------------------- *)
\* Five classes of models are run:
\*   "Any"      any status from any call, failing allocations, time events,
\*              step events, termination requests; no event indicators;
\*   "Crossing" all calls return OK; event indicators, time events, step
\*              events and termination requests are free;
\*   "Stale"    all calls return OK; the model may schedule a time event
\*              that is not later than the current time;
\*   "Quiet"    no event at all and all calls return OK (long runs);
\*   "Linger"   all calls return OK; the setup may schedule any time event
\*              and every later event iteration leaves the event time as
\*              it is; no limit on the number of steps.
\* The continuous state is the one last set (ModelX0 at the start) and
\* the derivative is the constant ModelXdot in every class.
MayFail == fmu = "Any"
Schedules == fmu \in {"Any", "Crossing", "Stale", "Linger"}
StaleBudget == CASE fmu = "Stale" -> MaxStale
                 [] fmu = "Linger" -> MaxCount + 1
                 [] OTHER -> 0
StepEvents == fmu \in {"Any", "Crossing"}
StatusSet == IF MayFail THEN fmi2Status ELSE {fmi2OK}
ZVals == {0 - 1, 0, 1}
ModelX0 == [k \in 1..nx |-> 1]
ModelXdot == [k \in 1..nx |-> 0 - 1]
EventTimes == (0 - 1)..tEnd
\* the event indicators of the model when the setup is done
ModelZ0 == [k \in 1..nz |-> 1]

\* type of variables[i] (0-based) in the variable list of the model description
VariableType(i) == IF i = 1 THEN "INTEGER" ELSE "REAL"
FetchCall(i) == IF VariableType(i) = "REAL" THEN "getReal" ELSE "getInteger"

ZeroVec(n) == [k \in 1..n |-> 0]

\* calloc((int)tEnd/h + 10, sizeof(double)): the cast binds to tEnd alone
Capacity == ((tEnd \div Scale) * Scale) \div h + Slack

(* --------------------------- call bookkeeping -------------------------- *)
\* the calls of the setup sequence that are made before the event iteration
SetupCalls == {"instantiate", "setupExperiment", "enterInitializationMode",
               "exitInitializationMode"}

\* the calls that move the model from one operating mode to another
ModeTransitions == {"enterInitializationMode", "exitInitializationMode", "enterEventMode",
                    "enterContinuousTimeMode", "terminate"}

\* the calls of an integration step
IntegrationCalls == {"getContinuousStates", "getDerivatives", "setTime", "setContinuousStates"}

\* records a call through the function table and the status it returned
Log(s, name, status) ==
  [s EXCEPT !.prevCall = s.lastCall,
            !.lastCall = name,
            !.lastFailed = status > fmi2Warning,
            !.failed = s.failed \/ status > fmi2Warning,
            !.nCall = IF name \in DOMAIN @ THEN [@ EXCEPT ![name] = @ + 1] ELSE @,
            !.lastTransition = IF name \in ModeTransitions /\ status <= fmi2Warning
                                 THEN name ELSE @]

\* the locals of simulate's loop body and of simulationDoStep: each is
\* assigned in every step before it is read, so it carries nothing from one
\* step (or call) to the next
EndOfScope(s) ==
  [s EXCEPT !.tPre = 0, !.dt = 0, !.timeEvent = FALSE, !.stateEvent = FALSE,
            !.stepEvent = FALSE, !.terminateSimulation = FALSE, !.i = 0,
            !.fmi2Flag = fmi2OK, !.nIter = 0]

\* return error("..."): simulate returns 0 (and main returns 0)
error(s) == [EndOfScope(s) EXCEPT !.pc = "done", !.phase = "done", !.ret = 0, !.exitCode = 0]

\* mutant: a zero indicator counts as a crossing
RECURSIVE StateEventLoop_Mutant(_, _, _, _)
StateEventLoop_Mutant(prez, z, i, stateEvent) ==
  IF i < nz
    THEN StateEventLoop_Mutant(prez, z, i + 1, stateEvent \/ (prez[i + 1] * z[i + 1] <= 0))
    ELSE stateEvent

\* for (i = 0; i < nz; i++) stateEvent = stateEvent || (prez[i] * z[i] < 0);
RECURSIVE StateEventLoop(_, _, _, _)
StateEventLoop(prez, z, i, stateEvent) ==
  IF i < nz
    THEN StateEventLoop(prez, z, i + 1, stateEvent \/ (prez[i + 1] * z[i + 1] < 0))
    ELSE stateEvent

\* mutant: the update uses the nominal step size
Euler_Mutant(x, xdot, dt) == [k \in 1..nx |-> x[k] + h * xdot[k]]

\* for (i = 0; i < nx; i++) x[i] += dt * xdot[i];
Euler(x, xdot, dt) == [k \in 1..nx |-> x[k] + dt * xdot[k]]

\* output[row][col] = v; a column at or past the capacity is outside the
\* row: the write is undefined, the caller decides whether the run survives
Store(s, row, col, v) ==
  IF col < s.capacity
    THEN [s EXCEPT !.output[row] = (col :> v) @@ s.output[row]]
    ELSE [s EXCEPT !.oob = TRUE]

\* the value of output[row][col]: rows are calloc'ed, so unwritten cells are 0
Cell(s, row, col) ==
  IF row \in DOMAIN s.output /\ col \in DOMAIN s.output[row] THEN s.output[row][col] ELSE 0

\* the value the model returns for variable i: a token naming the variable
\* and the fetch round
Fetched(s, i) == <<i, s.round>>

\* the lines of the summary, for (i = 0; i < nVariables - 1; i++): line i is
\* headed by variables[i+1].name and lists output[i+1][0 .. nSteps-1]
summary(s) == [i \in 0..(nVariables - 2) |-> [name |-> i + 1, row |-> i + 1]]

\* main: fewer than four arguments or an unknown mode print a message and
\* return -1; otherwise the exit code is the one of the run
main(argc, mode, run) ==
  IF argc < MinArgc THEN 0 - 1
  ELSE IF mode \in Modes THEN run
  ELSE 0 - 1

(* ------------------------------- Init ---------------------------------- *)
InitSim ==
  [component |-> "null", x |-> << >>, xdot |-> << >>, z |-> << >>, prez |-> << >>,
   time |-> 0,
   eventInfo |-> [newDiscreteStatesNeeded |-> FALSE, terminateSimulation |-> FALSE,
                  nextEventTimeDefined |-> FALSE, nextEventTime |-> 0],
   output |-> << >>, nSteps |-> 0, nTimeEvents |-> 0, nStateEvents |-> 0, nStepEvents |-> 0,
   tPre |-> 0, dt |-> 0, timeEvent |-> FALSE, stateEvent |-> FALSE, stepEvent |-> FALSE,
   terminateSimulation |-> FALSE, fmi2Flag |-> fmi2OK, i |-> 0,
   pc |-> "instantiate", phase |-> "init", ret |-> "none",
   lastCall |-> "none", prevCall |-> "none", lastFailed |-> FALSE,
   failed |-> FALSE,
   nFree |-> 0, nTerminate |-> 0, setTimeArg |-> 0, nIter |-> 0, nStale |-> 0,
   mx |-> << >>, round |-> 0, capacity |-> 0, oob |-> FALSE, live |-> {}, exitCode |-> "none",
   nCall |-> [c \in SetupCalls |-> 0], lastTransition |-> "none", setupDone |-> FALSE,
   terminatedBy |-> "none", nRetry |-> 0, mz |-> << >>, mzPre |-> << >>,
   nSet |-> 0, nExtra |-> 0, returned |-> 0 - 1]

Init ==
  /\ sim = [m \in Modes |-> IF m = "Step" THEN [InitSim EXCEPT !.live = {"state"}] ELSE InitSim]
  /\ fmu \in {"Any", "Crossing", "Stale", "Quiet"}
  /\ \E p \in (IF fmu = "Quiet"
                 THEN {<<Scale - 1, 1>>, <<Scale + 1, Scale \div 2>>}
                 ELSE {<<MaxTEnd - 1, 1>>, <<MaxTEnd, 2>>}) :
       tEnd = p[1] /\ h = p[2]
  /\ caller = "main"
  /\ mem = MemStart
  /\ nx = 1
  /\ nz \in (CASE fmu = "Any" -> {0}
              [] fmu = "Crossing" -> 1..MaxNz
              [] fmu = "Stale" -> {0}
              [] fmu = "Quiet" -> 0..MaxNz)
  /\ nVariables \in (CASE fmu = "Any" -> 1..2
                      [] fmu = "Crossing" -> {2}
                      [] fmu = "Stale" -> {2}
                      [] fmu = "Quiet" -> 1..MaxVariables)

(* ===================== simulate (run to completion) ==================== *)
\* the buffers simulate / initializeSimulation ask calloc for (lines 215-220)
Wanted == IF nz > 0 THEN {"x", "xdot", "z", "prez"} ELSE {"x", "xdot"}

\* cleanup: label at line 403
simulate_cleanup(s) == [s EXCEPT !.pc = "terminate", !.phase = "cleanup"]

\* while (time < tEnd)
simulate_while(s) ==
  IF s.time < tEnd
    THEN [EndOfScope(s) EXCEPT !.pc = "getContinuousStates", !.phase = "loop"]
    ELSE simulate_cleanup(s)

\* for (i = 0; i < nVariables-1; i++) { getReal / getInteger }, then
\* (in the loop) nSteps++
simulate_for(s, i) ==
  IF i < nVariables - 1
    THEN [s EXCEPT !.i = i, !.pc = FetchCall(i)]
    ELSE IF s.phase = "init"
      THEN simulate_while([s EXCEPT !.i = i, !.round = Bump(@)])
      ELSE simulate_while([s EXCEPT !.i = i, !.round = Bump(@), !.nSteps = Bump(@)])

simulate_instantiate(s, c) ==
  LET s1 == [Log(s, "instantiate", fmi2OK) EXCEPT !.component = c]
  IN IF c = "null" THEN error(s1) ELSE [s1 EXCEPT !.pc = "calloc"]

simulate_calloc(s, got) ==
  LET s1 == [s EXCEPT !.live = got,
                      !.x = ZeroVec(nx), !.xdot = ZeroVec(nx),
                      !.z = ZeroVec(nz), !.prez = ZeroVec(nz), !.mx = ModelX0]
  IN IF got # Wanted
       THEN error([s EXCEPT !.live = got])
       ELSE [s1 EXCEPT !.live = got \cup {"output"},
                       !.output = [r \in 0..nVariables |-> << >>],
                       !.capacity = Capacity,
                       !.time = tStart,
                       !.pc = "setupExperiment"]

simulate_setupExperiment(s, status) ==
  LET s1 == [Log(s, "setupExperiment", status) EXCEPT !.fmi2Flag = status]
  IN IF status > fmi2Warning THEN error(s1) ELSE [s1 EXCEPT !.pc = "enterInitializationMode"]

simulate_enterInitializationMode(s, status) ==
  LET s1 == [Log(s, "enterInitializationMode", status) EXCEPT !.fmi2Flag = status]
  IN IF status > fmi2Warning THEN error(s1) ELSE [s1 EXCEPT !.pc = "exitInitializationMode"]

simulate_exitInitializationMode(s, status) ==
  LET s1 == [Log(s, "exitInitializationMode", status) EXCEPT !.fmi2Flag = status]
  IN IF status > fmi2Warning
       THEN error(s1)
       ELSE [s1 EXCEPT !.eventInfo.newDiscreteStatesNeeded = TRUE,
                       !.eventInfo.terminateSimulation = FALSE,
                       !.nIter = 0,
                       !.pc = "newDiscreteStates"]

\* the initial event iteration, lines 261-276
simulate_newDiscreteStates_init(s, status, ei) ==
  LET s1 == [Log(s, "newDiscreteStates", status) EXCEPT !.fmi2Flag = status, !.nIter = @ + 1]
      s2 == [s1 EXCEPT !.eventInfo = ei,
                       !.terminatedBy = IF ei.terminateSimulation THEN "init" ELSE @,
                       !.nStale = IF ei.nextEventTimeDefined /\ ei.nextEventTime <= s.time
                                    THEN Bump(@) ELSE @]
  IN IF status > fmi2Warning THEN error(s1)
     ELSE IF ei.newDiscreteStatesNeeded /\ ~ei.terminateSimulation THEN s2
     ELSE IF ei.terminateSimulation THEN simulate_cleanup(s2)
     ELSE [s2 EXCEPT !.pc = "enterContinuousTimeMode"]

simulate_enterContinuousTimeMode_init(s, status) ==
  LET s1 == [Log(s, "enterContinuousTimeMode", status) EXCEPT !.fmi2Flag = status]
  IN IF status > fmi2Warning THEN error(s1)
     ELSE simulate_for([s1 EXCEPT !.setupDone = TRUE], 0)

\* getReal / getInteger into output[i + 1][0] (setup) or output[i + 1][nSteps]
simulate_fetch(s, status, crash) ==
  LET col == IF s.phase = "init" THEN 0 ELSE s.nSteps
      s1 == Store(Log(s, FetchCall(s.i), status), s.i + 1, col, Fetched(s, s.i))
  IN IF s1.oob /\ crash
       THEN [s1 EXCEPT !.pc = "crashed", !.phase = "done"]
       ELSE simulate_for(s1, s.i + 1)

simulate_getContinuousStates(s, status, xs) ==
  LET s1 == [Log(s, "getContinuousStates", status) EXCEPT !.fmi2Flag = status]
  IN IF status > fmi2Warning THEN error(s1)
     ELSE [s1 EXCEPT !.x = xs, !.pc = "getDerivatives"]

\* lines 306-310
simulate_AdvanceTime(s) ==
  LET t1 == min(s.time + h, tEnd)
      timeEvent == s.eventInfo.nextEventTimeDefined /\ t1 >= s.eventInfo.nextEventTime
      t2 == IF timeEvent THEN s.eventInfo.nextEventTime ELSE t1
  IN [s EXCEPT !.tPre = s.time, !.time = t2, !.timeEvent = timeEvent, !.dt = t2 - s.time]

simulate_getDerivatives(s, status, xd) ==
  LET s1 == [Log(s, "getDerivatives", status) EXCEPT !.fmi2Flag = status]
  IN IF status > fmi2Warning THEN error(s1)
     ELSE [simulate_AdvanceTime([s1 EXCEPT !.xdot = xd]) EXCEPT !.pc = "setTime"]

\* mutant: the indicators are queried before the new states are pushed
simulate_setTime_Mutant(s, status) ==
  LET s1 == [Log(s, "setTime", status) EXCEPT !.fmi2Flag = status, !.setTimeArg = s.time]
  IN IF status > fmi2Warning THEN error(s1)
     ELSE [s1 EXCEPT !.x = Euler(s.x, s.xdot, s.dt), !.prez = s.z,
                     !.pc = "getEventIndicators"]

simulate_setTime(s, status) ==
  LET s1 == [Log(s, "setTime", status) EXCEPT !.fmi2Flag = status, !.setTimeArg = s.time]
  IN IF status > fmi2Warning THEN error(s1)
     ELSE [s1 EXCEPT !.x = Euler(s.x, s.xdot, s.dt), !.pc = "setContinuousStates"]

simulate_setContinuousStates(s, status) ==
  LET s1 == [Log(s, "setContinuousStates", status) EXCEPT !.fmi2Flag = status]
  IN IF status > fmi2Warning THEN error(s1)
     ELSE [s1 EXCEPT !.mx = s.x, !.nSet = Bump(@), !.prez = s.z, !.pc = "getEventIndicators"]

\* lines 326-329
simulate_getEventIndicators(s, status, zs) ==
  LET s1 == [Log(s, "getEventIndicators", status) EXCEPT !.fmi2Flag = status]
  IN IF status > fmi2Warning THEN error(s1)
     ELSE [s1 EXCEPT !.z = zs,
                     !.stateEvent = StateEventLoop(s.prez, zs, 0, FALSE),
                     !.pc = "completedIntegratorStep"]

\* mutant: the events detected on the step are handled before the
\* termination request is looked at
simulate_completedIntegratorStep_Mutant(s, status, stepEvent, terminateSimulation) ==
  LET s1 == [Log(s, "completedIntegratorStep", status) EXCEPT !.fmi2Flag = status]
      s2 == [s1 EXCEPT !.stepEvent = stepEvent, !.terminateSimulation = terminateSimulation,
                       !.terminatedBy = IF terminateSimulation THEN "step" ELSE @]
  IN IF status > fmi2Warning THEN error(s1)
     ELSE IF s2.timeEvent \/ s2.stateEvent \/ stepEvent
       THEN [s2 EXCEPT !.pc = "enterEventMode"]
     ELSE IF terminateSimulation THEN simulate_cleanup(s2)
     ELSE simulate_for(s2, 0)

\* lines 334-344, and 391 when no event was detected
simulate_completedIntegratorStep(s, status, stepEvent, terminateSimulation) ==
  LET s1 == [Log(s, "completedIntegratorStep", status) EXCEPT !.fmi2Flag = status]
      s2 == [s1 EXCEPT !.stepEvent = stepEvent, !.terminateSimulation = terminateSimulation,
                       !.terminatedBy = IF terminateSimulation THEN "step" ELSE @]
  IN IF status > fmi2Warning THEN error(s1)
     ELSE IF terminateSimulation THEN simulate_cleanup(s2)
     ELSE IF s2.timeEvent \/ s2.stateEvent \/ stepEvent
       THEN [s2 EXCEPT !.pc = "enterEventMode"]
       ELSE simulate_for(s2, 0)

\* lines 346-368
simulate_enterEventMode(s, status) ==
  LET s1 == [Log(s, "enterEventMode", status) EXCEPT !.fmi2Flag = status]
  IN IF status > fmi2Warning THEN error(s1)
     ELSE [s1 EXCEPT !.nTimeEvents = IF s.timeEvent THEN Bump(@) ELSE @,
                     !.nStateEvents = IF s.stateEvent THEN Bump(@) ELSE @,
                     !.nStepEvents = IF s.stepEvent THEN Bump(@) ELSE @,
                     !.eventInfo.newDiscreteStatesNeeded = TRUE,
                     !.eventInfo.terminateSimulation = FALSE,
                     !.nIter = 0,
                     !.pc = "newDiscreteStates"]

\* mutant: a single discrete update, whatever the model reports
simulate_newDiscreteStates_loop_Mutant(s, status, ei) ==
  LET s1 == [Log(s, "newDiscreteStates", status) EXCEPT !.fmi2Flag = status, !.nIter = @ + 1]
      s2 == [s1 EXCEPT !.eventInfo = ei,
                       !.terminatedBy = IF ei.terminateSimulation THEN "event" ELSE @,
                       !.nStale = IF ei.nextEventTimeDefined /\ ei.nextEventTime <= s.time
                                    THEN Bump(@) ELSE @]
  IN IF status > fmi2Warning THEN error(s1)
     ELSE IF ei.terminateSimulation THEN simulate_cleanup(s2)
     ELSE [s2 EXCEPT !.pc = "enterContinuousTimeMode"]

\* mutant: continuous-time mode is entered again whether or not the model
\* asked to terminate
simulate_newDiscreteStates_loop_NoBreak(s, status, ei) ==
  LET s1 == [Log(s, "newDiscreteStates", status) EXCEPT !.fmi2Flag = status, !.nIter = @ + 1]
      s2 == [s1 EXCEPT !.eventInfo = ei,
                       !.terminatedBy = IF ei.terminateSimulation THEN "event" ELSE @,
                       !.nStale = IF ei.nextEventTimeDefined /\ ei.nextEventTime <= s.time
                                    THEN Bump(@) ELSE @]
  IN IF status > fmi2Warning THEN error(s1)
     ELSE IF ei.newDiscreteStatesNeeded /\ ~ei.terminateSimulation THEN s2
     ELSE [s2 EXCEPT !.pc = "enterContinuousTimeMode"]

\* the event iteration of a step, lines 369-388
simulate_newDiscreteStates_loop(s, status, ei) ==
  LET s1 == [Log(s, "newDiscreteStates", status) EXCEPT !.fmi2Flag = status, !.nIter = @ + 1]
      s2 == [s1 EXCEPT !.eventInfo = ei,
                       !.terminatedBy = IF ei.terminateSimulation THEN "event" ELSE @,
                       !.nStale = IF ei.nextEventTimeDefined /\ ei.nextEventTime <= s.time
                                    THEN Bump(@) ELSE @]
  IN IF status > fmi2Warning THEN error(s1)
     ELSE IF ei.newDiscreteStatesNeeded /\ ~ei.terminateSimulation THEN s2
     ELSE IF ei.terminateSimulation THEN simulate_cleanup(s2)
     ELSE [s2 EXCEPT !.pc = "enterContinuousTimeMode"]

simulate_enterContinuousTimeMode_loop(s, status) ==
  LET s1 == [Log(s, "enterContinuousTimeMode", status) EXCEPT !.fmi2Flag = status]
  IN IF status > fmi2Warning THEN error(s1) ELSE simulate_for(s1, 0)

\* lines 404-405
simulate_terminate(s, status) ==
  LET s1 == [Log(s, "terminate", status) EXCEPT !.fmi2Flag = status, !.nTerminate = @ + 1]
  IN IF status > fmi2Warning THEN error(s1) ELSE [s1 EXCEPT !.pc = "freeInstance"]

\* lines 407-436
simulate_freeInstance(s) ==
  [Log(s, "freeInstance", fmi2OK) EXCEPT !.nFree = @ + 1, !.live = {},
                                         !.pc = "done", !.phase = "done", !.ret = 1,
                                         !.exitCode = 0]

(* ============ initializeSimulation / main / simulationDoStep =========== *)
\* cleanupSimulation is entered with a non-null state and component
cleanupSimulation_entry(s) == [EndOfScope(s) EXCEPT !.pc = "terminate", !.phase = "cleanup"]

\* the failure exits of initializeSimulation after the buffers were
\* allocated: fmu->freeInstance(state->component); free(state); return NULL
initializeSimulation_fail(s) == [EndOfScope(s) EXCEPT !.pc = "freeInstance", !.phase = "initfail"]

\* main, lines 805-811, and the entry of simulationDoStep, lines 584-590
main_while(s) ==
  IF s.time < tEnd /\ ~s.eventInfo.terminateSimulation
    THEN IF s.time >= tEnd \/ s.eventInfo.terminateSimulation
      THEN cleanupSimulation_entry(s)            \* fmi2Discard > fmi2Warning: break
      ELSE [EndOfScope(s) EXCEPT !.tPre = s.time, !.pc = "getContinuousStates",
                                 !.phase = "loop"]
    ELSE cleanupSimulation_entry(s)

\* simulationDoStep returns status to main: break when it is > fmi2Warning
main_status(s, status) ==
  IF status > fmi2Warning THEN cleanupSimulation_entry(s) ELSE main_while(s)

\* a caller of simulationDoStep other than main: it may call simulationDoStep
\* on a session whose time has reached tEnd or that the model has terminated
client_while(s) ==
  IF s.time < tEnd /\ ~s.eventInfo.terminateSimulation
    THEN main_while(s)
    ELSE IF s.nExtra < MaxExtra
      THEN [EndOfScope(s) EXCEPT !.nExtra = @ + 1, !.pc = "simulationDoStep"]
      ELSE cleanupSimulation_entry(s)

\* a caller of simulationDoStep other than main: after a failed step it may
\* call simulationDoStep again on the same session
client_status(s, status) ==
  IF status > fmi2Warning
    THEN IF s.nRetry < MaxRetry
      THEN client_while([s EXCEPT !.nRetry = @ + 1])
      ELSE cleanupSimulation_entry(s)
    ELSE client_while(s)

\* return fmi2Flag / return fmi2OK: the status goes to the caller
simulationDoStep_return(s, status) ==
  LET s1 == [s EXCEPT !.returned = status]
  IN IF caller = "main" THEN main_status(s1, status) ELSE client_status(s1, status)

\* mutant: a session that has reached tEnd is stepped further
simulationDoStep_entry_PastEnd(s) ==
  IF s.eventInfo.terminateSimulation
    THEN simulationDoStep_return(s, fmi2Discard)
    ELSE [EndOfScope(s) EXCEPT !.tPre = s.time, !.pc = "getContinuousStates", !.phase = "loop"]

\* mutant: a session that the model has terminated is stepped further
simulationDoStep_entry_Terminated(s) ==
  IF s.time >= tEnd
    THEN simulationDoStep_return(s, fmi2Discard)
    ELSE [EndOfScope(s) EXCEPT !.tPre = s.time, !.pc = "getContinuousStates", !.phase = "loop"]

\* lines 584-590
simulationDoStep_entry(s) ==
  IF s.time >= tEnd \/ s.eventInfo.terminateSimulation
    THEN simulationDoStep_return(s, fmi2Discard)
    ELSE [EndOfScope(s) EXCEPT !.tPre = s.time, !.pc = "getContinuousStates", !.phase = "loop"]

\* the session is returned to the caller, which begins to step it
caller_while(s) == IF caller = "main" THEN main_while(s) ELSE client_while(s)

\* mutant: the handle is not looked at
initializeSimulation_instantiate_Mutant(s, c) ==
  [Log(s, "instantiate", fmi2OK) EXCEPT !.component = c, !.pc = "calloc"]

initializeSimulation_instantiate(s, c) ==
  LET s1 == [Log(s, "instantiate", fmi2OK) EXCEPT !.component = c]
  IN IF c = "null"
       THEN [EndOfScope(s1) EXCEPT !.live = {}, !.pc = "done", !.phase = "done",
                                   !.ret = "NULL", !.exitCode = 0 - 1]
       ELSE [s1 EXCEPT !.pc = "calloc"]

initializeSimulation_calloc(s, got) ==
  LET s1 == [s EXCEPT !.x = ZeroVec(nx), !.xdot = ZeroVec(nx),
                      !.z = ZeroVec(nz), !.prez = ZeroVec(nz), !.mx = ModelX0]
  IN IF got # Wanted
       THEN initializeSimulation_fail(s)          \* the buffers obtained are freed
       ELSE [s1 EXCEPT !.live = s.live \cup got, !.pc = "setupExperiment"]

initializeSimulation_setupExperiment(s, status) ==
  LET s1 == [Log(s, "setupExperiment", status) EXCEPT !.fmi2Flag = status]
  IN IF status > fmi2Warning
       THEN initializeSimulation_fail(s1)
       ELSE [s1 EXCEPT !.pc = "enterInitializationMode"]

initializeSimulation_enterInitializationMode(s, status) ==
  LET s1 == [Log(s, "enterInitializationMode", status) EXCEPT !.fmi2Flag = status]
  IN IF status > fmi2Warning
       THEN initializeSimulation_fail(s1)
       ELSE [s1 EXCEPT !.pc = "exitInitializationMode"]

initializeSimulation_exitInitializationMode(s, status) ==
  LET s1 == [Log(s, "exitInitializationMode", status) EXCEPT !.fmi2Flag = status]
  IN IF status > fmi2Warning
       THEN initializeSimulation_fail(s1)
       ELSE [s1 EXCEPT !.eventInfo.newDiscreteStatesNeeded = TRUE,
                       !.eventInfo.terminateSimulation = FALSE,
                       !.nIter = 0,
                       !.pc = "newDiscreteStates"]

\* for (int i = 0; i < state->nVariables - 1; i++) { getReal / getInteger };
\* return state
initializeSimulation_for(s, i) ==
  IF i < nVariables - 1
    THEN [s EXCEPT !.i = i, !.pc = FetchCall(i)]
    ELSE caller_while([s EXCEPT !.i = i, !.round = Bump(@), !.ret = "state"])

\* lines 550-558: the output rows are allocated after the setup calls
initializeSimulation_output(s) ==
  initializeSimulation_for([s EXCEPT !.live = @ \cup {"output"},
                                     !.output = [r \in 0..nVariables |-> << >>],
                                     !.capacity = Capacity], 0)

\* mutant: continuous-time mode is not entered after the initial iteration
initializeSimulation_newDiscreteStates_Mutant(s, status, ei) ==
  LET s1 == [Log(s, "newDiscreteStates", status) EXCEPT !.fmi2Flag = status, !.nIter = @ + 1]
      s2 == [s1 EXCEPT !.eventInfo = ei,
                       !.terminatedBy = IF ei.terminateSimulation THEN "init" ELSE @,
                       !.nStale = IF ei.nextEventTimeDefined /\ ei.nextEventTime <= s.time
                                    THEN Bump(@) ELSE @]
  IN IF status > fmi2Warning THEN initializeSimulation_fail(s1)
     ELSE IF ei.newDiscreteStatesNeeded /\ ~ei.terminateSimulation THEN s2
     ELSE initializeSimulation_output(s2)

\* the initial event iteration, lines 530-547
initializeSimulation_newDiscreteStates(s, status, ei) ==
  LET s1 == [Log(s, "newDiscreteStates", status) EXCEPT !.fmi2Flag = status, !.nIter = @ + 1]
      s2 == [s1 EXCEPT !.eventInfo = ei,
                       !.terminatedBy = IF ei.terminateSimulation THEN "init" ELSE @,
                       !.nStale = IF ei.nextEventTimeDefined /\ ei.nextEventTime <= s.time
                                    THEN Bump(@) ELSE @]
  IN IF status > fmi2Warning THEN initializeSimulation_fail(s1)
     ELSE IF ei.newDiscreteStatesNeeded /\ ~ei.terminateSimulation THEN s2
     ELSE IF ~ei.terminateSimulation THEN [s2 EXCEPT !.pc = "enterContinuousTimeMode"]
     ELSE initializeSimulation_output(s2)

initializeSimulation_enterContinuousTimeMode(s, status) ==
  LET s1 == [Log(s, "enterContinuousTimeMode", status) EXCEPT !.fmi2Flag = status]
  IN IF status > fmi2Warning
       THEN initializeSimulation_fail(s1)
       ELSE initializeSimulation_output([s1 EXCEPT !.setupDone = TRUE])

initializeSimulation_fetch(s, status, crash) ==
  LET s1 == Store(Log(s, FetchCall(s.i), status), s.i + 1, 0, Fetched(s, s.i))
  IN IF s1.oob /\ crash
       THEN [s1 EXCEPT !.pc = "crashed", !.phase = "done"]
       ELSE initializeSimulation_for(s1, s.i + 1)

\* mutant: after the instance was freed the session is still handed to main,
\* which steps no further and cleans it up
initializeSimulation_freeInstance_Mutant(s) ==
  cleanupSimulation_entry([Log(s, "freeInstance", fmi2OK) EXCEPT !.nFree = @ + 1,
                                                                 !.ret = "state"])

\* line 495 and after each failed setup call
initializeSimulation_freeInstance(s) ==
  [Log(s, "freeInstance", fmi2OK) EXCEPT !.nFree = @ + 1, !.live = @ \ {"state"},
                                         !.pc = "done", !.phase = "done",
                                         !.ret = "NULL", !.exitCode = 0 - 1]

simulationDoStep_getContinuousStates(s, status, xs) ==
  LET s1 == [Log(s, "getContinuousStates", status) EXCEPT !.fmi2Flag = status]
  IN IF status > fmi2Warning THEN simulationDoStep_return(s1, status)
     ELSE [s1 EXCEPT !.x = xs, !.pc = "getDerivatives"]

\* mutant: the event is flagged but the time is not clamped to it
simulationDoStep_AdvanceTime_Mutant(s) ==
  LET t1 == min(s.time + h, tEnd)
      timeEvent == s.eventInfo.nextEventTimeDefined /\ t1 >= s.eventInfo.nextEventTime
  IN [s EXCEPT !.time = t1, !.timeEvent = timeEvent, !.dt = t1 - s.tPre]

\* lines 604-609
simulationDoStep_AdvanceTime(s) ==
  LET t1 == min(s.time + h, tEnd)
      timeEvent == s.eventInfo.nextEventTimeDefined /\ t1 >= s.eventInfo.nextEventTime
      t2 == IF timeEvent THEN s.eventInfo.nextEventTime ELSE t1
  IN [s EXCEPT !.time = t2, !.timeEvent = timeEvent, !.dt = t2 - s.tPre]

simulationDoStep_getDerivatives(s, status, xd) ==
  LET s1 == [Log(s, "getDerivatives", status) EXCEPT !.fmi2Flag = status]
  IN IF status > fmi2Warning THEN simulationDoStep_return(s1, status)
     ELSE [simulationDoStep_AdvanceTime([s1 EXCEPT !.xdot = xd]) EXCEPT !.pc = "setTime"]

simulationDoStep_setTime(s, status) ==
  LET s1 == [Log(s, "setTime", status) EXCEPT !.fmi2Flag = status, !.setTimeArg = s.time]
  IN IF status > fmi2Warning THEN simulationDoStep_return(s1, status)
     ELSE [s1 EXCEPT !.x = Euler(s.x, s.xdot, s.dt), !.pc = "setContinuousStates"]

simulationDoStep_setContinuousStates(s, status) ==
  LET s1 == [Log(s, "setContinuousStates", status) EXCEPT !.fmi2Flag = status]
  IN IF status > fmi2Warning THEN simulationDoStep_return(s1, status)
     ELSE [s1 EXCEPT !.mx = s.x, !.nSet = Bump(@), !.prez = s.z, !.pc = "getEventIndicators"]

\* lines 631-637
simulationDoStep_getEventIndicators(s, status, zs) ==
  LET s1 == [Log(s, "getEventIndicators", status) EXCEPT !.fmi2Flag = status]
  IN IF status > fmi2Warning THEN simulationDoStep_return(s1, status)
     ELSE [s1 EXCEPT !.z = zs,
                     !.stateEvent = StateEventLoop(s.prez, zs, 0, FALSE),
                     !.pc = "completedIntegratorStep"]

\* for (int i = 0; i < state->nVariables - 1; i++) { getReal / getInteger };
\* state->nSteps++; return fmi2OK
simulationDoStep_for(s, i) ==
  IF i < nVariables - 1
    THEN [s EXCEPT !.i = i, !.pc = FetchCall(i)]
    ELSE simulationDoStep_return([s EXCEPT !.i = i, !.round = Bump(@), !.nSteps = Bump(@)], fmi2OK)

\* lines 642-654, and 683 when no event was detected
simulationDoStep_completedIntegratorStep(s, status, stepEvent, terminateSimulation) ==
  LET s1 == [Log(s, "completedIntegratorStep", status) EXCEPT !.fmi2Flag = status]
      s2 == [s1 EXCEPT !.stepEvent = stepEvent, !.terminateSimulation = terminateSimulation,
                       !.terminatedBy = IF terminateSimulation THEN "step" ELSE @]
  IN IF status > fmi2Warning THEN simulationDoStep_return(s1, status)
     ELSE IF terminateSimulation
       THEN simulationDoStep_return([s2 EXCEPT !.eventInfo.terminateSimulation = TRUE], fmi2OK)
     ELSE IF s2.timeEvent \/ s2.stateEvent \/ stepEvent
       THEN [s2 EXCEPT !.pc = "enterEventMode"]
       ELSE simulationDoStep_for(s2, 0)

\* mutant: one event kind is counted per step
simulationDoStep_enterEventMode_Mutant(s, status) ==
  LET s1 == [Log(s, "enterEventMode", status) EXCEPT !.fmi2Flag = status]
  IN IF status > fmi2Warning THEN simulationDoStep_return(s1, status)
     ELSE [s1 EXCEPT !.nTimeEvents = IF s.timeEvent THEN Bump(@) ELSE @,
                     !.nStateEvents = IF ~s.timeEvent /\ s.stateEvent THEN Bump(@) ELSE @,
                     !.nStepEvents = IF ~s.timeEvent /\ ~s.stateEvent /\ s.stepEvent
                                       THEN Bump(@) ELSE @,
                     !.eventInfo.newDiscreteStatesNeeded = TRUE,
                     !.eventInfo.terminateSimulation = FALSE,
                     !.nIter = 0,
                     !.pc = "newDiscreteStates"]

\* lines 655-665
simulationDoStep_enterEventMode(s, status) ==
  LET s1 == [Log(s, "enterEventMode", status) EXCEPT !.fmi2Flag = status]
  IN IF status > fmi2Warning THEN simulationDoStep_return(s1, status)
     ELSE [s1 EXCEPT !.nTimeEvents = IF s.timeEvent THEN Bump(@) ELSE @,
                     !.nStateEvents = IF s.stateEvent THEN Bump(@) ELSE @,
                     !.nStepEvents = IF s.stepEvent THEN Bump(@) ELSE @,
                     !.eventInfo.newDiscreteStatesNeeded = TRUE,
                     !.eventInfo.terminateSimulation = FALSE,
                     !.nIter = 0,
                     !.pc = "newDiscreteStates"]

\* mutant: the iteration goes on while the model asks for it, whether or not
\* the model also asked to terminate
simulationDoStep_newDiscreteStates_Mutant(s, status, ei) ==
  LET s1 == [Log(s, "newDiscreteStates", status) EXCEPT !.fmi2Flag = status, !.nIter = @ + 1]
      s2 == [s1 EXCEPT !.eventInfo = ei,
                       !.terminatedBy = IF ei.terminateSimulation THEN "event" ELSE @,
                       !.nStale = IF ei.nextEventTimeDefined /\ ei.nextEventTime <= s.time
                                    THEN Bump(@) ELSE @]
  IN IF status > fmi2Warning THEN simulationDoStep_return(s1, status)
     ELSE IF ei.newDiscreteStatesNeeded THEN s2
     ELSE IF ei.terminateSimulation THEN simulationDoStep_return(s2, fmi2OK)
     ELSE [s2 EXCEPT !.pc = "enterContinuousTimeMode"]

\* the event iteration of a step, lines 667-678
simulationDoStep_newDiscreteStates(s, status, ei) ==
  LET s1 == [Log(s, "newDiscreteStates", status) EXCEPT !.fmi2Flag = status, !.nIter = @ + 1]
      s2 == [s1 EXCEPT !.eventInfo = ei,
                       !.terminatedBy = IF ei.terminateSimulation THEN "event" ELSE @,
                       !.nStale = IF ei.nextEventTimeDefined /\ ei.nextEventTime <= s.time
                                    THEN Bump(@) ELSE @]
  IN IF status > fmi2Warning THEN simulationDoStep_return(s1, status)
     ELSE IF ei.newDiscreteStatesNeeded /\ ~ei.terminateSimulation THEN s2
     ELSE IF ei.terminateSimulation THEN simulationDoStep_return(s2, fmi2OK)
     ELSE [s2 EXCEPT !.pc = "enterContinuousTimeMode"]

simulationDoStep_enterContinuousTimeMode(s, status) ==
  LET s1 == [Log(s, "enterContinuousTimeMode", status) EXCEPT !.fmi2Flag = status]
  IN IF status > fmi2Warning THEN simulationDoStep_return(s1, status) ELSE simulationDoStep_for(s1, 0)

simulationDoStep_fetch(s, status, crash) ==
  LET s1 == Store(Log(s, FetchCall(s.i), status), s.i + 1, s.nSteps, Fetched(s, s.i))
  IN IF s1.oob /\ crash
       THEN [s1 EXCEPT !.pc = "crashed", !.phase = "done"]
       ELSE simulationDoStep_for(s1, s.i + 1)

\* line 712: the status of terminate is not looked at
cleanupSimulation_terminate(s, status) ==
  [Log(s, "terminate", status) EXCEPT !.nTerminate = @ + 1, !.pc = "freeInstance"]

\* lines 713-748; main returns 0
cleanupSimulation_freeInstance(s) ==
  [Log(s, "freeInstance", fmi2OK) EXCEPT !.nFree = @ + 1, !.live = {},
                                         !.pc = "done", !.phase = "done", !.exitCode = 0]

(* ============================== actions ================================ *)
\* the drivers that are about to make call c
Active(c) == {m \in Modes : sim[m].pc = c}

\* every driver about to make call c makes it and gets the same answer
Call(c, Whole(_), Step(_)) ==
  /\ Active(c) # {}
  /\ sim' = [m \in Modes |->
               IF sim[m].pc = c
                 THEN IF m = "Whole" THEN Whole(sim[m]) ELSE Step(sim[m])
                 ELSE sim[m]]
  /\ UNCHANGED cfgvars

\* what newDiscreteStates may write to eventInfo
EventInfoSet ==
  {ei \in [newDiscreteStatesNeeded : BOOLEAN, terminateSimulation : BOOLEAN,
           nextEventTimeDefined : BOOLEAN, nextEventTime : EventTimes] :
     /\ ~ei.nextEventTimeDefined => ei.nextEventTime = 0
     /\ (ei.newDiscreteStatesNeeded /\ ~ei.terminateSimulation) => ~ei.nextEventTimeDefined
     /\ ~Schedules => ~ei.nextEventTimeDefined
     /\ fmu = "Quiet" => ~ei.newDiscreteStatesNeeded
     /\ ~StepEvents => ~ei.terminateSimulation
     /\ \A m \in Active("newDiscreteStates") :
          /\ sim[m].nIter + 1 >= MaxIter => ~ei.newDiscreteStatesNeeded
          /\ (ei.nextEventTimeDefined /\ ei.nextEventTime <= sim[m].time)
               => sim[m].nStale < StaleBudget
          /\ (fmu = "Linger" /\ sim[m].phase = "loop") =>
               /\ ~ei.newDiscreteStatesNeeded
               /\ ei.nextEventTimeDefined = sim[m].eventInfo.nextEventTimeDefined
               /\ ei.nextEventTime = sim[m].eventInfo.nextEventTime}

Instantiate ==
  \E c \in (IF MayFail THEN {"null", "c"} ELSE {"c"}) :
    Call("instantiate",
         LAMBDA s : simulate_instantiate(s, c),
         LAMBDA s : initializeSimulation_instantiate(s, c))

Calloc ==
  \E got \in (IF MayFail THEN SUBSET Wanted ELSE {Wanted}) :
    Call("calloc",
         LAMBDA s : simulate_calloc(s, got),
         LAMBDA s : initializeSimulation_calloc(s, got))

SetupExperiment ==
  \E status \in StatusSet :
    Call("setupExperiment",
         LAMBDA s : simulate_setupExperiment(s, status),
         LAMBDA s : initializeSimulation_setupExperiment(s, status))

EnterInitializationMode ==
  \E status \in StatusSet :
    Call("enterInitializationMode",
         LAMBDA s : simulate_enterInitializationMode(s, status),
         LAMBDA s : initializeSimulation_enterInitializationMode(s, status))

ExitInitializationMode ==
  \E status \in StatusSet :
    Call("exitInitializationMode",
         LAMBDA s : [simulate_exitInitializationMode(s, status) EXCEPT !.mz = ModelZ0],
         LAMBDA s : [initializeSimulation_exitInitializationMode(s, status)
                       EXCEPT !.mz = ModelZ0])

NewDiscreteStates ==
  \E status \in StatusSet, ei \in EventInfoSet :
    Call("newDiscreteStates",
         LAMBDA s : IF s.phase = "init"
                      THEN simulate_newDiscreteStates_init(s, status, ei)
                      ELSE simulate_newDiscreteStates_loop(s, status, ei),
         LAMBDA s : IF s.phase = "init"
                      THEN initializeSimulation_newDiscreteStates(s, status, ei)
                      ELSE simulationDoStep_newDiscreteStates(s, status, ei))

EnterContinuousTimeMode ==
  \E status \in StatusSet :
    Call("enterContinuousTimeMode",
         LAMBDA s : IF s.phase = "init"
                      THEN simulate_enterContinuousTimeMode_init(s, status)
                      ELSE simulate_enterContinuousTimeMode_loop(s, status),
         LAMBDA s : IF s.phase = "init"
                      THEN initializeSimulation_enterContinuousTimeMode(s, status)
                      ELSE simulationDoStep_enterContinuousTimeMode(s, status))

GetReal ==
  \E status \in StatusSet, crash \in [Modes -> BOOLEAN] :
    Call("getReal",
         LAMBDA s : simulate_fetch(s, status, crash["Whole"]),
         LAMBDA s : IF s.phase = "init"
                      THEN initializeSimulation_fetch(s, status, crash["Step"])
                      ELSE simulationDoStep_fetch(s, status, crash["Step"]))

GetInteger ==
  \E status \in StatusSet, crash \in [Modes -> BOOLEAN] :
    Call("getInteger",
         LAMBDA s : simulate_fetch(s, status, crash["Whole"]),
         LAMBDA s : IF s.phase = "init"
                      THEN initializeSimulation_fetch(s, status, crash["Step"])
                      ELSE simulationDoStep_fetch(s, status, crash["Step"]))

GetContinuousStates ==
  \E status \in StatusSet, xs \in {sim[m].mx : m \in Active("getContinuousStates")} :
    /\ fmu \notin {"Quiet", "Linger"} =>
         \A m \in Active("getContinuousStates") : sim[m].nSteps < MaxSteps
    /\ Call("getContinuousStates",
            LAMBDA s : [simulate_getContinuousStates(s, status, xs) EXCEPT !.mzPre = s.mz],
            LAMBDA s : [simulationDoStep_getContinuousStates(s, status, xs)
                          EXCEPT !.mzPre = s.mz])

GetDerivatives ==
  \E status \in StatusSet, xd \in {ModelXdot} :
    /\ Call("getDerivatives",
            LAMBDA s : simulate_getDerivatives(s, status, xd),
            LAMBDA s : simulationDoStep_getDerivatives(s, status, xd))

SetTime ==
  \E status \in StatusSet :
    Call("setTime",
         LAMBDA s : simulate_setTime(s, status),
         LAMBDA s : simulationDoStep_setTime(s, status))

SetContinuousStates ==
  \E status \in StatusSet :
    Call("setContinuousStates",
         LAMBDA s : simulate_setContinuousStates(s, status),
         LAMBDA s : simulationDoStep_setContinuousStates(s, status))

GetEventIndicators ==
  \E status \in StatusSet, zs \in [1..nz -> ZVals] :
    /\ fmu # "Crossing" => zs = [k \in 1..nz |-> 1]
    /\ Call("getEventIndicators",
            LAMBDA s : [simulate_getEventIndicators(s, status, zs) EXCEPT !.mz = zs],
            LAMBDA s : [simulationDoStep_getEventIndicators(s, status, zs) EXCEPT !.mz = zs])

CompletedIntegratorStep ==
  \E status \in StatusSet, stepEvent \in BOOLEAN, terminateSimulation \in BOOLEAN :
    /\ ~StepEvents => ~stepEvent /\ ~terminateSimulation
    /\ Call("completedIntegratorStep",
            LAMBDA s : simulate_completedIntegratorStep(s, status, stepEvent, terminateSimulation),
            LAMBDA s : simulationDoStep_completedIntegratorStep(s, status, stepEvent,
                                                                terminateSimulation))

EnterEventMode ==
  \E status \in StatusSet :
    Call("enterEventMode",
         LAMBDA s : simulate_enterEventMode(s, status),
         LAMBDA s : simulationDoStep_enterEventMode(s, status))

Terminate ==
  \E status \in StatusSet :
    Call("terminate",
         LAMBDA s : simulate_terminate(s, status),
         LAMBDA s : cleanupSimulation_terminate(s, status))

FreeInstance ==
  \E c \in {sim[m].component : m \in Active("freeInstance")} :
    Call("freeInstance",
         LAMBDA s : simulate_freeInstance(s),
         LAMBDA s : IF s.phase = "initfail"
                      THEN initializeSimulation_freeInstance(s)
                      ELSE cleanupSimulation_freeInstance(s))

Next ==
  \/ Instantiate
  \/ Calloc
  \/ SetupExperiment
  \/ EnterInitializationMode
  \/ ExitInitializationMode
  \/ NewDiscreteStates
  \/ EnterContinuousTimeMode
  \/ GetReal
  \/ GetInteger
  \/ GetContinuousStates
  \/ GetDerivatives
  \/ SetTime
  \/ SetContinuousStates
  \/ GetEventIndicators
  \/ CompletedIntegratorStep
  \/ EnterEventMode
  \/ Terminate
  \/ FreeInstance

Spec == Init /\ [][Next]_vars

\* the runs against the models without event indicators; the program is
\* sequential and single-threaded, so a driver that can make its next call
\* makes it
\* the stepped driver used by a caller that may step again after a failed
\* step, against an arbitrary model
ClientInit ==
  /\ sim = [m \in Modes |-> IF m = "Step" THEN [InitSim EXCEPT !.live = {"state"}] ELSE InitSim]
  /\ fmu = "Any"
  /\ caller = "client"
  /\ mem = MemStart
  /\ \E p \in {<<MaxTEnd - 1, 1>>, <<MaxTEnd, 2>>} : tEnd = p[1] /\ h = p[2]
  /\ nx = 1
  /\ nz = 0
  /\ nVariables \in 2..MaxVariables

\* the caller calls simulationDoStep on a finished session
SimulationDoStep ==
  Call("simulationDoStep", LAMBDA s : s, LAMBDA s : simulationDoStep_entry(s))

ClientNext == Next \/ SimulationDoStep

ClientSpec == ClientInit /\ [][ClientNext]_vars

\* the runs against the models that may linger at a time event
LingerInit ==
  /\ sim = [m \in Modes |-> IF m = "Step" THEN [InitSim EXCEPT !.live = {"state"}] ELSE InitSim]
  /\ fmu = "Linger"
  /\ \E p \in {<<MaxTEnd - 1, 1>>, <<MaxTEnd, 2>>} : tEnd = p[1] /\ h = p[2]
  /\ caller = "main"
  /\ mem = MemStart
  /\ nx = 1
  /\ nz \in 0..1
  /\ nVariables \in 2..MaxVariables
LingerSpec == LingerInit /\ [][Next]_vars /\ WF_vars(Next)

\* the arguments given to allocateMemory: small ones and the ones around
\* the largest long int and the largest size_t
SizeArgs == {0, 1, 2, Word \div 2 - 1, Word \div 2, Word - 1}
CountArgs == {0, 1, 2}

\* a call of allocateMemory; malloc returns NULL or a block that is not live
AllocateMemory ==
  /\ ~mem.crashed
  /\ \E nbr_of_elements \in CountArgs, size \in SizeArgs, survives \in BOOLEAN,
        ptr \in {NULL} \cup {p \in Pointers : p \notin DOMAIN mem.heap
                                                 /\ \A q \in Pointers \ DOMAIN mem.heap : p <= q} :
       mem' = allocateMemory(mem, nbr_of_elements, size, ptr, survives)
  /\ UNCHANGED <<sim, tEnd, h, nx, nz, nVariables, fmu, caller>>

\* a call of freeMemory on a live block or on NULL
FreeMemory ==
  /\ ~mem.crashed
  /\ \E ptr \in {NULL} \cup DOMAIN mem.heap : mem' = freeMemory(mem, ptr)
  /\ UNCHANGED <<sim, tEnd, h, nx, nz, nVariables, fmu, caller>>

\* the users of memory.c: no run of a model is in progress
MemInit ==
  /\ mem = MemStart
  /\ sim = [m \in Modes |-> InitSim]
  /\ fmu = "Quiet" /\ caller = "main"
  /\ tEnd = 0 /\ h = 1 /\ nx = 0 /\ nz = 0 /\ nVariables = 1
MemNext == AllocateMemory \/ FreeMemory
MemSpec == MemInit /\ [][MemNext]_vars

LiveInit == Init /\ fmu \in {"Any", "Stale", "Quiet"}
LiveSpec == LiveInit /\ [][Next]_vars /\ WF_vars(Next)

(* ============================== properties ============================= *)
W == sim["Whole"]
S == sim["Step"]

\* the fields of the session that both drivers keep
Session(s) ==
  [time |-> s.time, x |-> s.x, xdot |-> s.xdot, z |-> s.z, prez |-> s.prez,
   eventInfo |-> s.eventInfo, nSteps |-> s.nSteps, nTimeEvents |-> s.nTimeEvents,
   nStateEvents |-> s.nStateEvents, nStepEvents |-> s.nStepEvents]

\* the recorded output: columns 0 .. nSteps-1 of every row
Columns(s) == [r \in 0..nVariables |-> [c \in 0..(s.nSteps - 1) |-> Cell(s, r, c)]]

Counters(s) == <<s.nSteps, s.nTimeEvents, s.nStateEvents, s.nStepEvents>>

Ended(s) == s.phase \in {"cleanup", "done"}

\* C1: simulate and the stepped driver make the same model calls (with the
\* same arguments) while stepping, on the same session state, and end with
\* the same nSteps, the same recorded output columns and the same event counts.
C1_SameRun ==
  /\ (W.phase = "loop" \/ S.phase = "loop") =>
       /\ W.pc = S.pc
       /\ W.phase = S.phase
       /\ W.lastCall = S.lastCall
       /\ W.setTimeArg = S.setTimeArg
       /\ Session(W) = Session(S)
  /\ (Ended(W) /\ Ended(S)) =>
       /\ Counters(W) = Counters(S)
       /\ Columns(W) = Columns(S)

\* C2: a run that obtained a handle has called freeInstance on it exactly
\* once when the driver returns.
C2_FreedOnce ==
  \A m \in Modes :
    (sim[m].pc = "done" /\ sim[m].component # "null" /\ sim[m].x # << >>) =>
      sim[m].nFree = 1

\* C3: once a model call has returned a status stricter than Warning, the
\* only further calls are terminate and then freeInstance, and both are made.
C3_AbortThenTeardown ==
  \A m \in Modes :
    sim[m].failed =>
      /\ sim[m].pc \in {"terminate", "freeInstance", "done"}
      /\ sim[m].pc = "done" =>
           /\ sim[m].nTerminate = 1 /\ sim[m].nFree = 1
           /\ sim[m].prevCall = "terminate" /\ sim[m].lastCall = "freeInstance"

\* C4: teardown calls terminate and then freeInstance, and freeInstance is
\* called whatever terminate returned.
C4_ReleaseAfterTerminate ==
  \A m \in Modes :
    (sim[m].pc = "done" /\ sim[m].nTerminate >= 1) =>
      /\ sim[m].prevCall = "terminate" /\ sim[m].lastCall = "freeInstance"
      /\ sim[m].nFree = 1

\* the call that follows call c when c did not fail and nothing else decides
NextCall(c) ==
  CASE c = "setupExperiment" -> "enterInitializationMode"
    [] c = "enterInitializationMode" -> "exitInitializationMode"
    [] c = "exitInitializationMode" -> "newDiscreteStates"
    [] c = "getContinuousStates" -> "getDerivatives"
    [] c = "getDerivatives" -> "setTime"
    [] c = "setTime" -> "setContinuousStates"
    [] c = "setContinuousStates" -> "getEventIndicators"
    [] c = "getEventIndicators" -> "completedIntegratorStep"

\* C5: a status stricter than Warning from any call (the output fetches
\* included) aborts the step or the setup; OK and Warning go on to the same
\* next call.
C5_FailsIffStricterThanWarning ==
  \A m \in Modes :
    /\ (sim[m].lastFailed /\ sim[m].lastCall \notin {"terminate", "freeInstance"}) =>
         sim[m].pc \in {"terminate", "freeInstance", "done"}
    /\ (~sim[m].lastFailed /\ sim[m].lastCall \in
          {"setupExperiment", "enterInitializationMode", "exitInitializationMode",
           "getContinuousStates", "getDerivatives", "setTime", "setContinuousStates",
           "getEventIndicators"}) =>
         sim[m].pc = NextCall(sim[m].lastCall)

\* C6: the session time never decreases and stays within [tStart, tEnd].
C6_TimeMonotoneInRange ==
  [][\A m \in Modes : /\ sim'[m].time >= sim[m].time
                      /\ tStart <= sim'[m].time
                      /\ sim'[m].time <= tEnd]_vars

\* C7: a step writes its output at a column below the capacity of the rows.
C7_WriteWithinCapacity ==
  \A m \in Modes :
    (sim[m].phase = "loop" /\ sim[m].pc \in {"getReal", "getInteger"}) =>
      sim[m].nSteps < sim[m].capacity

\* C8: a time event is flagged exactly when the event time is defined and
\* min(time + h, tEnd) has reached it; the time given to setTime and kept as
\* the session time is then the event time itself, otherwise min(time + h, tEnd).
C8_TimeEventClamp ==
  \A m \in Modes :
    LET s == sim[m]
        proposed == min(s.tPre + h, tEnd)
    IN (s.phase = "loop" /\ s.pc \in {"setTime", "setContinuousStates"}) =>
         /\ s.timeEvent = (s.eventInfo.nextEventTimeDefined
                             /\ proposed >= s.eventInfo.nextEventTime)
         /\ s.timeEvent => s.time = s.eventInfo.nextEventTime
         /\ ~s.timeEvent => s.time = proposed
         /\ s.pc = "setContinuousStates" => s.setTimeArg = s.time

C8_Witness ==
  \E m \in Modes :
    /\ sim[m].phase = "loop" /\ sim[m].pc = "setContinuousStates"
    /\ sim[m].timeEvent
    /\ sim[m].time < min(sim[m].tPre + h, tEnd)
    /\ sim[m].time > sim[m].tPre

\* C9: a state event is flagged exactly when prez[i] * z[i] < 0 for some
\* indicator i; never with nz = 0, nor when an indicator is zero before or
\* after the step.
C9_StateEventIffSignFlip ==
  \A m \in Modes :
    LET s == sim[m]
    IN (s.phase = "loop" /\ s.pc = "completedIntegratorStep") =>
         /\ s.stateEvent = (\E k \in 1..nz : s.prez[k] * s.z[k] < 0)
         /\ (\A k \in 1..nz : s.prez[k] = 0 \/ s.z[k] = 0) => ~s.stateEvent
         /\ nz = 0 => ~s.stateEvent

C9_Witness ==
  \E m \in Modes :
    /\ sim[m].phase = "loop" /\ sim[m].pc = "completedIntegratorStep"
    /\ nz = 2
    /\ sim[m].stateEvent
    /\ sim[m].prez[1] * sim[m].z[1] >= 0
    /\ sim[m].prez[2] * sim[m].z[2] < 0

\* C10: enterContinuousTimeMode is called only right after a
\* newDiscreteStates call that reported newDiscreteStatesNeeded = false and
\* terminateSimulation = false.
C10_ContinuousAfterConvergence ==
  \A m \in Modes :
    LET s == sim[m]
    IN /\ s.pc = "enterContinuousTimeMode" =>
            /\ s.lastCall = "newDiscreteStates" /\ ~s.lastFailed
            /\ ~s.eventInfo.newDiscreteStatesNeeded
            /\ ~s.eventInfo.terminateSimulation
       /\ s.lastCall = "enterContinuousTimeMode" =>
            /\ s.prevCall = "newDiscreteStates"
            /\ ~s.eventInfo.newDiscreteStatesNeeded
            /\ ~s.eventInfo.terminateSimulation

C10_Witness ==
  \E m \in Modes :
    /\ sim[m].lastCall = "enterContinuousTimeMode"
    /\ sim[m].phase = "loop"
    /\ sim[m].nIter = MaxIter

\* the discrete-update loop is left after an iteration in which the model
\* reported newDiscreteStatesNeeded = false or terminateSimulation = true, or
\* returned a status stricter than Warning
ExitsLoop ==
  \A m \in Modes :
    LET s == sim[m]
    IN (/\ s.lastCall = "newDiscreteStates"
        /\ \/ s.lastFailed
           \/ ~s.eventInfo.newDiscreteStatesNeeded
           \/ s.eventInfo.terminateSimulation) =>
         s.pc # "newDiscreteStates"

\* C11: the discrete-update loop makes no further newDiscreteStates call
\* after an iteration that reported newDiscreteStatesNeeded = false,
\* terminateSimulation = true or a status stricter than Warning, and, the
\* model reporting so within MaxIter iterations, a driver that is in the loop
\* eventually leaves it.
C11_LoopTerminates ==
  /\ []ExitsLoop
  /\ \A m \in Modes :
       (sim[m].pc = "newDiscreteStates") ~> (sim[m].pc # "newDiscreteStates")

C11_Witness ==
  \E m \in Modes :
    /\ sim[m].phase = "loop"
    /\ sim[m].lastCall = "newDiscreteStates"
    /\ sim[m].nIter = MaxIter
    /\ ~sim[m].eventInfo.newDiscreteStatesNeeded
    /\ sim[m].pc = "enterContinuousTimeMode"

\* C12: when the model asks to terminate during the initial discrete-update
\* iteration, no integration call and no enterContinuousTimeMode is made,
\* nSteps stays 0, and the run ends with terminate followed by freeInstance.
C12_InitialTermination ==
  \A m \in Modes :
    LET s == sim[m]
    IN s.terminatedBy = "init" =>
         /\ s.nSteps = 0
         /\ s.pc \notin IntegrationCalls \cup {"enterContinuousTimeMode"}
         /\ s.lastCall \notin IntegrationCalls \cup {"enterContinuousTimeMode"}
         /\ ~s.setupDone
         /\ s.pc = "done" => (s.prevCall = "terminate" /\ s.lastCall = "freeInstance")

\* C13: against a model without events, without termination request and
\* with all calls returning OK, the run records ceil(tEnd / h) steps, ends
\* with time = tEnd and all event counters at zero, and the state of constant
\* derivative d ends at x0 + tEnd * d.
C13_QuietRun ==
  \A m \in Modes :
    LET s == sim[m]
    IN (fmu = "Quiet" /\ s.phase = "done") =>
         /\ s.nSteps = (tEnd + h - 1) \div h
         /\ s.time = tEnd
         /\ s.nTimeEvents = 0 /\ s.nStateEvents = 0 /\ s.nStepEvents = 0
         /\ s.x = [k \in 1..nx |-> ModelX0[k] + tEnd * ModelXdot[k]]

\* once completedIntegratorStep has asked to terminate, the driver is in its
\* teardown and the stepped session carries the termination flag
TerminatedByStep ==
  \A m \in Modes :
    LET s == sim[m]
    IN s.terminatedBy = "step" =>
         /\ s.phase \in {"cleanup", "done"}
         /\ s.pc \in {"terminate", "freeInstance", "done"}
         /\ s.lastCall \in {"completedIntegratorStep", "terminate", "freeInstance"}
         /\ m = "Step" => s.eventInfo.terminateSimulation

\* C14: when completedIntegratorStep reports terminateSimulation = true the
\* session is marked terminated, enterEventMode and newDiscreteStates are not
\* called for that step and no event counter is incremented, whatever events
\* were detected on the step.
C14_TerminationFirst ==
  /\ []TerminatedByStep
  /\ [][\A m \in Modes :
          sim'[m].terminatedBy = "step" =>
            /\ sim'[m].nTimeEvents = sim[m].nTimeEvents
            /\ sim'[m].nStateEvents = sim[m].nStateEvents
            /\ sim'[m].nStepEvents = sim[m].nStepEvents]_vars

C14_Witness ==
  /\ W.terminatedBy = "step"
  /\ W.pc = "terminate"
  /\ W.timeEvent /\ W.stepEvent
  /\ S.terminatedBy = "step"
  /\ S.eventInfo.terminateSimulation

\* the summary was printed: simulate returned 1, or cleanupSimulation ran
Printed(s) == s.pc = "done" /\ s.prevCall = "terminate" /\ s.lastCall = "freeInstance"

\* output[row][col] holds a value fetched for variable i
HoldsValueOf(s, row, col, i) ==
  /\ row \in DOMAIN s.output
  /\ col \in DOMAIN s.output[row]
  /\ s.output[row][col][1] = i

\* C15: every declared variable i in 0..nVariables-1 has a row of the output
\* buffer that holds, for each recorded step, the value fetched for variable
\* i, and the summary prints that row under the name of variable i.
C15_RowPerVariable ==
  \A m \in Modes :
    LET s == sim[m]
    IN (Printed(s) /\ s.nSteps >= 1 /\ ~s.oob) =>
         \A i \in 0..(nVariables - 1) :
           \E k \in DOMAIN summary(s) :
             /\ summary(s)[k].name = i
             /\ \A j \in 0..(s.nSteps - 1) : HoldsValueOf(s, summary(s)[k].row, j, i)

\* C16: the exit code is 0 when the simulation succeeds and non-zero when a
\* model call of the setup or of a step returned a status stricter than
\* Warning, in both modes; fewer than four arguments or an unknown mode give
\* a non-zero exit code.
C16_ExitCode ==
  /\ \A m \in Modes :
       LET s == sim[m]
       IN s.pc = "done" =>
            /\ s.failed => main(MinArgc, m, s.exitCode) # 0
            /\ (~s.failed /\ Printed(s)) => main(MinArgc, m, s.exitCode) = 0
  /\ \A argc \in 1..(MinArgc + 1), mode \in Modes \cup {"Other"} :
       (argc < MinArgc \/ mode \notin Modes) => main(argc, mode, 0) # 0

\* C17: when an internal buffer cannot be allocated after the model was
\* instantiated, no further setup call is made and the handle is released
\* with freeInstance before the driver returns.
C17_AllocationRollback ==
  \A m \in Modes :
    LET s == sim[m]
    IN (s.component # "null" /\ s.pc # "calloc" /\ s.x = << >>) =>
         /\ s.pc \in {"freeInstance", "done"}
         /\ s.lastCall \in {"instantiate", "freeInstance"}
         /\ s.pc = "done" => (s.nFree = 1 /\ s.lastCall = "freeInstance")

\* C18: when the driver returns from a run whose buffers were allocated,
\* none of the buffers x, xdot, z, prez and output is still allocated.
C18_BuffersReleased ==
  \A m \in Modes :
    (sim[m].pc = "done" /\ sim[m].x # << >>) =>
      sim[m].live \cap {"x", "xdot", "z", "prez", "output"} = {}

\* C19: both drivers make instantiate, setupExperiment,
\* enterInitializationMode and exitInitializationMode once each and in this
\* order, then one or more newDiscreteStates, then enterContinuousTimeMode
\* once; no integration call is made before enterContinuousTimeMode returned.
C19_SetupSequence ==
  \A m \in Modes :
    LET s == sim[m]
    IN /\ \A c \in SetupCalls : s.nCall[c] <= 1
       /\ s.lastCall = "setupExperiment" => s.prevCall = "instantiate"
       /\ s.lastCall = "enterInitializationMode" => s.prevCall = "setupExperiment"
       /\ s.lastCall = "exitInitializationMode" => s.prevCall = "enterInitializationMode"
       /\ (s.lastCall = "newDiscreteStates" /\ s.phase = "init") =>
            s.prevCall \in {"exitInitializationMode", "newDiscreteStates"}
       /\ (s.pc = "enterContinuousTimeMode" /\ s.phase = "init") =>
            /\ ~s.setupDone
            /\ s.lastCall = "newDiscreteStates"
            /\ \A c \in SetupCalls : s.nCall[c] = 1
       /\ s.setupDone => \A c \in SetupCalls : s.nCall[c] = 1
       /\ (s.pc \in IntegrationCalls \/ s.lastCall \in IntegrationCalls) => s.setupDone

C19_Witness ==
  \A m \in Modes :
    /\ sim[m].setupDone
    /\ sim[m].pc = "getDerivatives"
    /\ sim[m].nSteps = 0
    /\ sim[m].nIter = 0

\* C20: setTime and setContinuousStates are not called while the last mode
\* transition of the model was enterEventMode, in any sequence of
\* simulationDoStep calls on a session, a call after a failed step included.
C20_IntegrationInContinuousMode ==
  \A m \in Modes :
    sim[m].pc \in {"setTime", "setContinuousStates"} =>
      sim[m].lastTransition # "enterEventMode"

\* C21: when the state-event comparison of a step is made, prez holds the
\* event indicators the model had before the integration of that step, on
\* the first step after the setup as on every other step.
C21_PrezIsIndicatorBeforeStep ==
  \A m \in Modes :
    (sim[m].phase = "loop" /\ sim[m].pc = "completedIntegratorStep") =>
      sim[m].prez = sim[m].mzPre

\* an event flag of the step in progress is set
AnyEvent(s) == s.timeEvent \/ s.stateEvent \/ s.stepEvent

\* the three event counters
EventCounters(s) == <<s.nTimeEvents, s.nStateEvents, s.nStepEvents>>

\* 1 for a set flag, 0 otherwise
Flag(b) == IF b THEN 1 ELSE 0

\* C22: on a step where completedIntegratorStep does not ask to terminate,
\* enterEventMode is called iff timeEvent, stateEvent or stepEvent is set;
\* when it succeeds each of nTimeEvents, nStateEvents, nStepEvents grows by
\* one iff its flag is set, and nothing else changes a counter.
C22_EventModeIffFlag ==
  /\ [](\A m \in Modes :
          /\ sim[m].pc = "enterEventMode" => AnyEvent(sim[m])
          /\ (/\ sim[m].lastCall = "completedIntegratorStep"
              /\ ~sim[m].lastFailed
              /\ sim[m].terminatedBy # "step"
              /\ AnyEvent(sim[m])) => sim[m].pc = "enterEventMode")
  /\ [][\A m \in Modes :
          IF sim[m].pc = "enterEventMode" /\ sim'[m] # sim[m] /\ ~sim'[m].lastFailed
            THEN /\ sim'[m].lastCall = "enterEventMode"
                 /\ sim'[m].nTimeEvents = sim[m].nTimeEvents + Flag(sim[m].timeEvent)
                 /\ sim'[m].nStateEvents = sim[m].nStateEvents + Flag(sim[m].stateEvent)
                 /\ sim'[m].nStepEvents = sim[m].nStepEvents + Flag(sim[m].stepEvent)
            ELSE EventCounters(sim'[m]) = EventCounters(sim[m])]_vars

\* both drivers have counted a time event and a step event on one step
C22_Witness ==
  \A m \in Modes :
    /\ sim[m].lastCall = "enterEventMode" /\ ~sim[m].lastFailed
    /\ sim[m].timeEvent /\ sim[m].stepEvent /\ ~sim[m].stateEvent
    /\ EventCounters(sim[m]) = <<1, 0, 1>>

\* C23: the forward Euler update uses the elapsed time of the step: with
\* tPre the time before the step and t the time passed to setTime, the
\* states handed to setContinuousStates are x[i] + (t - tPre) * xdot[i] for
\* the x and xdot the model gave on that step.
C23_EulerUsesElapsedTime ==
  \A m \in Modes :
    sim[m].pc = "setContinuousStates" =>
      /\ sim[m].lastCall = "setTime"
      /\ \A k \in 1..nx :
           sim[m].x[k] = sim[m].mx[k] + (sim[m].setTimeArg - sim[m].tPre) * ModelXdot[k]

\* both drivers are about to set the states of a step shorter than h
C23_Witness ==
  \A m \in Modes :
    /\ sim[m].pc = "setContinuousStates"
    /\ nx > 0
    /\ sim[m].setTimeArg - sim[m].tPre > 0
    /\ sim[m].setTimeArg - sim[m].tPre < h

\* the model calls of one step, in the order of the loop body
StepOrder ==
  <<"getContinuousStates", "getDerivatives", "setTime", "setContinuousStates",
    "getEventIndicators", "completedIntegratorStep", "enterEventMode">>

\* C24: within a step the model calls are made in the order
\* getContinuousStates, getDerivatives, setTime, setContinuousStates,
\* getEventIndicators, completedIntegratorStep and only then enterEventMode:
\* each of them directly follows its predecessor, and a call that succeeded
\* is followed by its successor.
C24_StepCallOrder ==
  \A m \in Modes :
    /\ \A k \in 2..Len(StepOrder) :
         sim[m].lastCall = StepOrder[k] => sim[m].prevCall = StepOrder[k - 1]
    /\ \A k \in 1..(Len(StepOrder) - 2) :
         (sim[m].lastCall = StepOrder[k] /\ ~sim[m].lastFailed) =>
           sim[m].pc = StepOrder[k + 1]
    /\ sim[m].pc = "enterEventMode" => sim[m].lastCall = "completedIntegratorStep"

\* both drivers have gone through all seven calls on a step after the first
C24_Witness ==
  \A m \in Modes :
    /\ sim[m].lastCall = "enterEventMode"
    /\ sim[m].prevCall = "completedIntegratorStep"
    /\ sim[m].nSteps >= 1

\* C25: when the event iteration of a step ends with terminateSimulation
\* set, the session goes to its end with no enterContinuousTimeMode and no
\* further integration call; when it ends without it, enterContinuousTimeMode
\* is the next call, and it is made once: only directly after a
\* newDiscreteStates, never after itself or a fetch.
C25_TerminateOrContinue ==
  \A m \in Modes :
    /\ sim[m].terminatedBy = "event" =>
         /\ sim[m].pc \in {"terminate", "freeInstance", "done"}
         /\ sim[m].lastCall \in {"newDiscreteStates", "terminate", "freeInstance"}
    /\ (/\ sim[m].lastCall = "newDiscreteStates" /\ ~sim[m].lastFailed
        /\ sim[m].phase = "loop"
        /\ ~sim[m].eventInfo.newDiscreteStatesNeeded
        /\ ~sim[m].eventInfo.terminateSimulation) =>
         sim[m].pc = "enterContinuousTimeMode"
    /\ sim[m].pc = "enterContinuousTimeMode" =>
         sim[m].lastCall = "newDiscreteStates" /\ ~sim[m].lastFailed
    /\ sim[m].pc = "getContinuousStates" => sim[m].lastCall # "newDiscreteStates"

\* both drivers have finished a session that an event iteration of the
\* second or a later step ended
C25_Witness ==
  \A m \in Modes :
    /\ sim[m].terminatedBy = "event"
    /\ sim[m].pc = "done"
    /\ sim[m].nSteps >= 1

\* C26: when simulate finishes, nSteps is the number of integration steps it
\* made, that is of setContinuousStates calls that succeeded, a step on which
\* the model asked to terminate included.
C26_StepsCounted ==
  (W.pc = "done" /\ W.ret = 1) => W.nSteps = W.nSet

\* C27: when instantiate returns a null handle the session fails (simulate
\* returns 0, initializeSimulation returns NULL) and no other model function
\* is called afterwards, terminate and freeInstance included.
C27_NullHandleFails ==
  \A m \in Modes :
    (sim[m].lastCall # "none" /\ sim[m].component = "null") =>
      /\ sim[m].lastCall = "instantiate"
      /\ sim[m].pc = "done"
      /\ sim[m].nTerminate = 0 /\ sim[m].nFree = 0
      /\ sim[m].ret = IF m = "Whole" THEN 0 ELSE "NULL"

\* instantiate has returned a null handle to both drivers
C27_Witness ==
  \A m \in Modes :
    sim[m].lastCall = "instantiate" /\ sim[m].component = "null" /\ sim[m].pc = "done"

\* C28: against a model whose calls all return OK and whose event iterations
\* converge, the stepping loop of either driver eventually exits and the run
\* reaches its teardown (the terminate call), whatever event times the model
\* schedules, those not later than the current time included.  A run that a
\* write outside an output row has killed is left aside: the loop of a run
\* that goes on is the one that has to exit.
C28_LoopExits ==
  \A m \in Modes : <>(sim[m].nTerminate > 0 \/ sim[m].pc = "crashed")

\* C29: simulationDoStep called on a session whose time has reached tEnd or
\* whose eventInfo.terminateSimulation is set returns fmi2Discard, makes no
\* model call and leaves time, x, z, prez, nSteps, the event counters and
\* the output unchanged.
C29_DiscardOnFinished ==
  [][(/\ S.pc = "simulationDoStep"
      /\ S.time >= tEnd \/ S.eventInfo.terminateSimulation
      /\ sim'["Step"] # S) =>
       /\ sim'["Step"].returned = fmi2Discard
       /\ sim'["Step"].pc \in {"simulationDoStep", "terminate"}
       /\ <<sim'["Step"].lastCall, sim'["Step"].prevCall>> = <<S.lastCall, S.prevCall>>
       /\ Session(sim'["Step"]) = Session(S)
       /\ sim'["Step"].output = S.output]_vars

\* a session that has reached tEnd was stepped again, twice, and discarded
C29_Witness ==
  /\ S.nExtra = MaxExtra /\ S.returned = fmi2Discard /\ S.pc = "terminate"
  /\ S.time >= tEnd /\ ~S.eventInfo.terminateSimulation

C31_NothingAfterFree ==
  \A m \in Modes :
    /\ sim[m].nFree <= 1
    /\ sim[m].nFree = 1 => sim[m].lastCall = "freeInstance" /\ sim[m].pc = "done"
    /\ sim[m].lastCall = "freeInstance" => sim[m].nFree = 1

\* simulate has freed the instance after its loop and the stepped driver in
\* cleanupSimulation, after at least one step
C31_Witness ==
  \A m \in Modes :
    /\ sim[m].nFree = 1 /\ sim[m].nTerminate = 1 /\ sim[m].pc = "done"
    /\ sim[m].nSteps >= 1

\* C32: nSteps counts the steps that completed (their outputs fetched)
\* without failure and without termination, and column j < nSteps of the row
\* of every fetched variable holds the value fetched at the end of the
\* (j+1)-th completed step; for j = 0 this is the value of the first step,
\* not the one written during the setup.
C32_ColumnPerCompletedStep ==
  \A m \in Modes :
    LET s == sim[m]
    IN s.round >= 1 =>
         /\ s.nSteps = s.round - 1
         /\ \A j \in 0..(s.nSteps - 1) : \A i \in 0..(nVariables - 2) :
              /\ HoldsValueOf(s, i + 1, j, i)
              /\ s.output[i + 1][j] = Fetched([s EXCEPT !.round = j + 1], i)

\* the sum of the size arguments of the live blocks
RECURSIVE SumOfSizes(_)
SumOfSizes(f) ==
  IF DOMAIN f = {} THEN 0
  ELSE LET p == CHOOSE q \in DOMAIN f : TRUE IN f[p] + SumOfSizes(Without(f, p))

\* C33: after any sequence of allocateMemory and freeMemory calls, each
\* freeMemory on a live block or on NULL, peakMemory >= currentMemory,
\* currentMemory is the sum of the size arguments of the live blocks and is
\* back at its initial value when no block is live; freeMemory(NULL) and a
\* failed allocation change neither counter.
C33_MemoryCounters ==
  /\ [](~mem.crashed =>
          /\ mem.peakMemory >= mem.currentMemory
          /\ mem.currentMemory = SumOfSizes(mem.sizes)
          /\ DOMAIN mem.sizes = {} => mem.currentMemory = MemStart.currentMemory)
  /\ [][mem'.op \in {"freeMemory(NULL)", "allocateMemory failed"} =>
          /\ mem'.currentMemory = mem.currentMemory
          /\ mem'.peakMemory = mem.peakMemory]_vars

====
